---- MODULE Spec2Model ----
(***************************************************************************)
(* Model of module/sources/vmware/connection.py (class VMWareHandler):     *)
(* the two-pass discovery controller (apply), the per-entity handlers      *)
(* (add_host, add_virtual_machine), the MAC and primary-IP resolvers and   *)
(* the interface reconciler, over an in-memory NetBox inventory.           *)
(*                                                                         *)
(* Python None is the string "None" (for strings) or 0 (for references to *)
(* inventory objects, which are 1-based positions in the inventory lists). *)
(***************************************************************************)
EXTENDS Integers, Sequences, FiniteSets, TLC

VARIABLES
    store,                      \* inventory: object type -> list of device / VM records
    ifstore,                    \* inventory: interface type -> list of interface records
    ipstore,                    \* inventory: list of NBIPAddresses records
    processed_host_names,       \* class attribute (list), shared by all handler instances
    processed_vm_names,         \* class attribute (list), shared by all handler instances
    processed_vm_uuid,          \* class attribute (list), shared by all handler instances
    standalone_hosts,           \* class attribute (list), shared by all handler instances
    parsing_vms_the_first_time, \* per handler instance: the value self.<attr> reads
    handler,                    \* the handler instance whose apply() runs (0: none yet)
    view,                       \* position of apply() in object_mapping (0: not in apply)
    view_objects,               \* objects of the current view not yet handed to the handler
    run,                        \* "idle", "running", "done", "aborted"
    vm_view,                    \* the VirtualMachine objects of the vCenter in this run
    last,                       \* trace of the most recent handler call
    writes,                     \* per run: device/VM record writes per entity key
    probe                       \* argument and result of a direct resolver call

vars == <<store, ifstore, ipstore, processed_host_names, processed_vm_names,
          processed_vm_uuid, standalone_hosts, parsing_vms_the_first_time,
          handler, view, view_objects, run, vm_view, last, writes, probe>>

inventory_vars == <<store, ifstore, ipstore>>
class_vars == <<processed_host_names, processed_vm_names, processed_vm_uuid, standalone_hosts>>
control_vars == <<parsing_vms_the_first_time, handler, view, view_objects, run>>
backend_vars == <<vm_view>>

(***************************************************************************)
(* Bounds                                                                  *)
(***************************************************************************)
MaxInterfaces == 4      \* interfaces added to the inventory in SpecMacs
MaxRecords == 3         \* device / VM records added to the inventory in SpecIp
MaxHosts == 2           \* HostSystem objects of one vCenter
MaxVMs == 2             \* VirtualMachine objects of one vCenter
MaxCurrent == 2         \* interfaces the parent has in the inventory in SpecMap
MaxDiscovered == 2      \* discovered interfaces handed to the reconciler in SpecMap

(***************************************************************************)
(* Values                                                                  *)
(***************************************************************************)
None == "None"

NBDevices == "NBDevices"
NBVMs == "NBVMs"
NBInterfaces == "NBInterfaces"
NBVMInterfaces == "NBVMInterfaces"

ObjectTypes == {NBDevices, NBVMs}
InterfaceTypes == {NBInterfaces, NBVMInterfaces}

\* sequence helpers
InSeq(x, s) == \E i \in 1..Len(s) : s[i] = x
Range(s) == {s[i] : i \in 1..Len(s)}
RemoveAt(s, k) == [i \in 1..(Len(s) - 1) |-> IF i < k THEN s[i] ELSE s[i + 1]]

\* An address in CIDR form "ip/mask"; NoAddress stands for None.
Cidr(ip, mask) == [ip |-> ip, mask |-> mask]
NoAddress == Cidr(None, "")

\* str(x).split("/")[0]
StripMask(address) == address.ip

\* The two stored forms of data.primary_ip4 / data.primary_ip6, and None.
PrimaryNone == [form |-> "none", address |-> NoAddress, id |-> 0]
PrimaryDict(address) == [form |-> "dict", address |-> address, id |-> 0]
PrimaryInt(id) == [form |-> "int", address |-> NoAddress, id |-> id]

\* A device / VM record of the inventory. src names the discovered entity whose
\* data was written into the record last ("netbox": as read from NetBox).
Object(name, site, cluster, status, ip4, ip6, src) ==
    [name |-> name, site |-> site, cluster |-> cluster, status |-> status,
     primary_ip4 |-> ip4, primary_ip6 |-> ip6, src |-> src]

\* An interface record; parent is data.<secondary_key> (device / virtual_machine).
Interface(name, mac, type, parent) ==
    [name |-> name, mac_address |-> mac, type |-> type, parent |-> parent]

\* An IP address record; id is the NetBox id (0: not yet in NetBox).
IPAddress(address, iftype, nic, primary, id) ==
    [address |-> address, assigned_type |-> iftype, assigned_object_id |-> nic,
     is_primary |-> primary, id |-> id]

(***************************************************************************)
(* get_object_based_on_macs                                                *)
(***************************************************************************)
interface_typSwapped(object_type) ==
    IF object_type = NBDevices THEN NBVMInterfaces ELSE NBInterfaces

interface_typ(object_type) ==
    IF object_type = NBDevices THEN NBInterfaces ELSE NBVMInterfaces

\* objects_with_matching_macs[matching_object] = 1 / += 1, keeping the dict's
\* insertion order: a list of [obj, n].
Bump(d, obj) ==
    IF \E i \in 1..Len(d) : d[i].obj = obj
    THEN [i \in 1..Len(d) |-> IF d[i].obj = obj THEN [d[i] EXCEPT !.n = @ + 1] ELSE d[i]]
    ELSE Append(d, [obj |-> obj, n |-> 1])

RECURSIVE CountMatches(_, _, _)
CountMatches(ints, mac_list, d) ==
    IF ints = <<>> THEN d
    ELSE LET int == Head(ints)
             hit == InSeq(int.mac_address, mac_list) /\ int.parent # 0
         IN  CountMatches(Tail(ints), mac_list, IF hit THEN Bump(d, int.parent) ELSE d)

objects_with_matching_macs(object_type, mac_list) ==
    CountMatches(ifstore[interface_typ(object_type)], mac_list, <<>>)

\* sorted(d, key=d.get, reverse=True) is stable: among equal counts the dict
\* order is kept, so the head is the first entry holding the maximum.
FirstMax(d) ==
    CHOOSE i \in 1..Len(d) :
        /\ \A j \in 1..Len(d) : d[j].n <= d[i].n
        /\ \A j \in 1..(i - 1) : d[j].n < d[i].n

\* matching_ration = first / second; matching_ration >= 2.0
RatioHighEnoughGt(first_choice_matches, second_choice_matches) ==
    first_choice_matches > 2 * second_choice_matches

RatioHighEnough(first_choice_matches, second_choice_matches) ==
    first_choice_matches >= 2 * second_choice_matches

get_object_based_on_macs(object_type, mac_list) ==
    IF Len(mac_list) = 0 THEN 0
    ELSE LET d == objects_with_matching_macs(object_type, mac_list)
         IN  IF Len(d) = 0 THEN 0
             ELSE IF Len(d) = 1 THEN d[1].obj
             ELSE LET first == FirstMax(d)
                      rest == RemoveAt(d, first)
                      second == FirstMax(rest)
                  IN  IF RatioHighEnough(d[first].n, rest[second].n)
                      THEN d[first].obj
                      ELSE 0

(***************************************************************************)
(* get_object_based_on_primary_ip                                          *)
(***************************************************************************)
\* inventory.get_by_id(NBIPAddresses, id): the record with that NetBox id
get_by_id(id) ==
    IF \E i \in 1..Len(ipstore) : ipstore[i].id = id
    THEN ipstore[CHOOSE i \in 1..Len(ipstore) :
                    /\ ipstore[i].id = id
                    /\ \A j \in 1..(i - 1) : ipstore[j].id # id].address
    ELSE NoAddress

matches_device_primary_ip(device_primary_ip, ip_needle) ==
    /\ device_primary_ip.form # "none"
    /\ ip_needle # None
    /\ LET ip == IF device_primary_ip.form = "dict"
                 THEN device_primary_ip.address
                 ELSE get_by_id(device_primary_ip.id)
       IN  ip # NoAddress /\ StripMask(ip) = ip_needle

\* the test made on one record inside the loop over get_all_items(object_type)
DeviceMatchesV4Only(device, primary_ip4, primary_ip6) ==
    matches_device_primary_ip(device.primary_ip4, primary_ip4)

DeviceMatches(device, primary_ip4, primary_ip6) ==
    \/ matches_device_primary_ip(device.primary_ip4, primary_ip4)
    \/ matches_device_primary_ip(device.primary_ip6, primary_ip6)

get_object_based_on_primary_ip(object_type, ip4, ip6) ==
    IF ip4 = NoAddress /\ ip6 = NoAddress THEN 0
    ELSE LET primary_ip4 == IF ip4 # NoAddress THEN StripMask(ip4) ELSE None
             primary_ip6 == IF ip6 # NoAddress THEN StripMask(ip6) ELSE None
             items == store[object_type]
             hits == {i \in 1..Len(items) : DeviceMatches(items[i], primary_ip4, primary_ip6)}
         IN  IF hits = {} THEN 0
             ELSE CHOOSE i \in hits : \A j \in hits : i <= j

(***************************************************************************)
(* Inventory (module.netbox.inventory): lookup by primary and secondary    *)
(* key, upsert and update                                                  *)
(***************************************************************************)
\* the first position of s satisfying Test, 0 when there is none
FirstIndex(s, Test(_)) ==
    IF \E i \in 1..Len(s) : Test(s[i])
    THEN CHOOSE i \in 1..Len(s) : Test(s[i]) /\ \A j \in 1..(i - 1) : ~Test(s[j])
    ELSE 0

LastIndex(s, Test(_)) ==
    IF \E i \in 1..Len(s) : Test(s[i])
    THEN CHOOSE i \in 1..Len(s) : Test(s[i]) /\ \A j \in (i + 1)..Len(s) : ~Test(s[j])
    ELSE 0

\* NBDevices: primary key name, secondary key site; NBVMs: name and cluster
SecondaryKey(object_type, data) ==
    IF object_type = NBDevices THEN data.site ELSE data.cluster

\* inventory.get_by_data(object_type, data) on a list of device / VM records
get_by_data_in(items, object_type, data) ==
    LET Same(o) == /\ o.name = data.name
                   /\ SecondaryKey(object_type, o) = SecondaryKey(object_type, data)
    IN  FirstIndex(items, Same)

get_by_data(object_type, data) == get_by_data_in(store[object_type], object_type, data)

\* object.update(data): the discovered fields replace the stored ones
update(object, data, src) ==
    [object EXCEPT !.name = data.name, !.site = data.site, !.cluster = data.cluster,
                   !.status = data.status, !.src = src]

\* a record built from discovered data alone
NewObject(data, src) ==
    Object(data.name, data.site, data.cluster, data.status, PrimaryNone, PrimaryNone, src)

\* inventory.add_update_object(object_type, data): [items, object]
add_update_object(items, object_type, data, src) ==
    LET this == get_by_data_in(items, object_type, data)
    IN  IF this = 0
        THEN [items |-> Append(items, NewObject(data, src)), object |-> Len(items) + 1]
        ELSE [items |-> [items EXCEPT ![this] = update(items[this], data, src)],
              object |-> this]

\* inventory.get_all_interfaces(object): positions in the interface list, in order
RECURSIVE InterfacesOf(_, _, _)
InterfacesOf(ints, object, i) ==
    IF i > Len(ints) THEN <<>>
    ELSE (IF ints[i].parent = object THEN <<i>> ELSE <<>>) \o InterfacesOf(ints, object, i + 1)

get_all_interfaces(object_type, object) ==
    InterfacesOf(ifstore[interface_typ(object_type)], object, 1)

\* nic_object.update(data=int_data); a VM's int_data holds no "type" key
update_interface(int, int_data, object) ==
    [int EXCEPT !.name = int_data.name, !.mac_address = int_data.mac_address,
                !.type = IF int_data.type = None THEN @ ELSE int_data.type,
                !.parent = object]

\* add_update_object(NBInterfaces / NBVMInterfaces, data=int_data): [items, object]
add_update_interface(ints, int_data, object) ==
    LET Same(i) == i.name = int_data.name /\ i.parent = object
        this == FirstIndex(ints, Same)
    IN  IF this = 0
        THEN [items |-> Append(ints, Interface(int_data.name, int_data.mac_address,
                                               int_data.type, object)),
              object |-> Len(ints) + 1]
        ELSE [items |-> [ints EXCEPT ![this] = update_interface(ints[this], int_data, object)],
              object |-> this]

\* add_update_object(NBIPAddresses, {address, assigned_object_id}), then
\* ip_object.is_primary = True for a primary address
add_update_ip(ips, address, iftype, nic, primary) ==
    LET Same(a) == a.address = address
        this == FirstIndex(ips, Same)
    IN  IF this = 0
        THEN Append(ips, IPAddress(address, iftype, nic, primary, 0))
        ELSE [ips EXCEPT ![this] = [@ EXCEPT !.assigned_type = iftype,
                                             !.assigned_object_id = nic,
                                             !.is_primary = @ \/ primary]]

(***************************************************************************)
(* map_object_interfaces_to_current_interfaces                             *)
(***************************************************************************)
\* The interface names of the model in Python's string order (list.sort()).
NameOrder == <<"Nic1", "Nic2", "eth0", "eth1", "vNIC 1", "vNIC 2", "vmk0", "vmnic0", "vmnic1">>

NameRank(n) == CHOOSE i \in 1..Len(NameOrder) : NameOrder[i] = n
NameLess(a, b) == NameRank(a) < NameRank(b)

\* grab(int_data, "mac_address", fallback="XX:XX:YY:YY:ZZ:ZZ")
FallbackMac == "XX:XX:YY:YY:ZZ:ZZ"

IntTypeOneKind(type) == "virtual"

\* "virtual" unless the type is present and does not contain "virtual"
IntType(type) == IF type \in {None, "virtual"} THEN "virtual" ELSE "physical"

RemoveFirstKeeps(s, x) == s

\* list.remove(x): the first occurrence goes
RemoveFirst(s, x) ==
    LET IsX(y) == y = x
    IN  RemoveAt(s, FirstIndex(s, IsX))

ZipCrossed(a, b) ==
    [i \in 1..(IF Len(a) < Len(b) THEN Len(a) ELSE Len(b)) |-> <<a[i], b[Len(b) + 1 - i]>>]

\* dict(zip(unmatched_interface_names, current_object_interface_names))
Zip(a, b) ==
    [i \in 1..(IF Len(a) < Len(b) THEN Len(a) ELSE Len(b)) |-> <<a[i], b[i]>>]

\* The index built by "grab current data": a later interface of the parent
\* replaces an earlier one under the same key.
CurrentByName(ints, cur, name) ==
    LET Is(i) == ints[i].name # None /\ ints[i].name = name
        k == LastIndex(cur, Is)
    IN  IF k = 0 THEN 0 ELSE cur[k]

CurrentByTypeMac(ints, cur, type, mac) ==
    LET Is(i) == /\ ints[i].mac_address # None
                 /\ ints[i].mac_address = mac
                 /\ IntType(ints[i].type) = type
        k == LastIndex(cur, Is)
    IN  IF k = 0 THEN 0 ELSE cur[k]

CurrentByMac(ints, cur, mac) ==
    LET Is(i) == ints[i].mac_address # None /\ ints[i].mac_address = mac
        k == LastIndex(cur, Is)
    IN  IF k = 0 THEN 0 ELSE cur[k]

RECURSIVE CurrentNames(_, _)
CurrentNames(ints, cur) ==
    IF cur = <<>> THEN <<>>
    ELSE (IF ints[Head(cur)].name # None THEN <<ints[Head(cur)].name>> ELSE <<>>)
         \o CurrentNames(ints, Tail(cur))

\* return_data[name] = nic
SetReturn(return_data, name, nic) ==
    [i \in 1..Len(return_data) |->
        IF return_data[i].name = name THEN [name |-> name, nic |-> nic] ELSE return_data[i]]

MatchingIntMacFirst(ints, cur, names, return_data, int_data) ==
    LET int_mac == IF int_data.mac_address = None THEN FallbackMac ELSE int_data.mac_address
        by_type_mac == CurrentByTypeMac(ints, cur, IntType(int_data.type), int_mac)
    IN  IF by_type_mac # 0 THEN by_type_mac
        ELSE IF InSeq(int_data.name, names) THEN CurrentByName(ints, cur, int_data.name)
        ELSE 0

\* the cascade for one discovered interface
MatchingInt(ints, cur, names, return_data, int_data) ==
    LET int_mac == IF int_data.mac_address = None THEN FallbackMac ELSE int_data.mac_address
        int_type == IntType(int_data.type)
        by_type_mac == CurrentByTypeMac(ints, cur, int_type, int_mac)
        by_mac == CurrentByMac(ints, cur, int_mac)
    IN  IF InSeq(int_data.name, names) THEN CurrentByName(ints, cur, int_data.name)
        ELSE IF by_type_mac # 0 THEN by_type_mac
        ELSE IF by_mac # 0 /\ ~(\E i \in 1..Len(return_data) : return_data[i].nic = by_mac)
             THEN by_mac
        ELSE 0

\* the loop over interface_data_dict.items(); error: list.remove raised ValueError
RECURSIVE MatchLoop(_, _, _, _)
MatchLoop(ints, cur, todo, st) ==
    IF todo = <<>> \/ st.error THEN st
    ELSE LET int_data == Head(todo)
             entered == Append(st.return_data, [name |-> int_data.name, nic |-> 0])
             mathing_int == MatchingInt(ints, cur, st.names, entered, int_data)
         IN  IF mathing_int # 0
             THEN IF InSeq(ints[mathing_int].name, st.names)
                  THEN MatchLoop(ints, cur, Tail(todo),
                           [st EXCEPT !.return_data = SetReturn(entered, int_data.name, mathing_int),
                                      !.names = RemoveFirst(st.names, ints[mathing_int].name)])
                  ELSE [st EXCEPT !.return_data = SetReturn(entered, int_data.name, mathing_int),
                                  !.error = TRUE]
             ELSE MatchLoop(ints, cur, Tail(todo),
                      [st EXCEPT !.return_data = entered,
                                 !.unmatched = Append(st.unmatched, int_data.name)])

\* the positional pass over the sorted left overs
RECURSIVE MatchLeftOvers(_, _, _, _)
MatchLeftOvers(ints, cur, pairs, return_data) ==
    IF pairs = <<>> THEN return_data
    ELSE MatchLeftOvers(ints, cur, Tail(pairs),
             SetReturn(return_data, Head(pairs)[1], CurrentByName(ints, cur, Head(pairs)[2])))

\* [error, return_data]: return_data lists [name, nic] in the order of the
\* discovered interfaces, nic = 0 for None
map_object_interfaces_to_current_interfaces(ints, device_vm_object, interface_data) ==
    LET cur == InterfacesOf(ints, device_vm_object, 1)
        st == MatchLoop(ints, cur, interface_data,
                        [names |-> CurrentNames(ints, cur), return_data |-> <<>>,
                         unmatched |-> <<>>, error |-> FALSE])
        matching_nics == Zip(SortSeq(st.unmatched, NameLess), SortSeq(st.names, NameLess))
    IN  IF st.error THEN [error |-> TRUE, return_data |-> st.return_data]
        ELSE [error |-> FALSE,
              return_data |-> MatchLeftOvers(ints, cur, matching_nics, st.return_data)]

(***************************************************************************)
(* The backend: the objects the vCenter views can hold, as the handlers    *)
(* read them (grab(obj, ...)) after normalisation                          *)
(***************************************************************************)
Nic(name, mac, type, primary, ips) ==
    [name |-> name, mac_address |-> mac, type |-> type, primary |-> primary, ips |-> ips]

\* network of an address: the part ip_interface(address).network compares
NetworkOf(ip) ==
    CASE ip \in {"10.0.0.1", "10.0.0.2", "10.0.0.254"} -> "10.0.0.0/24"
      [] ip \in {"10.0.1.1", "10.0.1.254"} -> "10.0.1.0/24"
      [] ip \in {"fd00::1", "fd00::fe"} -> "fd00::/64"
      [] OTHER -> None

IsV6(ip) == ip \in {"fd00::1", "fd00::fe"}

VMObjects == {"vmA", "vmB", "vmC", "vmD", "vmE", "vmF", "vmG"}

VMRecord(uuid, name, powerState, cluster, gateway4, gateway6, nics) ==
    [uuid |-> uuid, name |-> name, powerState |-> powerState, cluster |-> cluster,
     gateway4 |-> gateway4, gateway6 |-> gateway6, nics |-> nics]

VirtualMachine(obj) ==
    CASE obj = "vmA" ->
           VMRecord("u1", "web", "poweredOn", "c1", "10.0.0.254", None,
                    <<Nic("vNIC 1", "m1", None, FALSE, <<Cidr("10.0.0.1", "24")>>)>>)
      [] obj = "vmB" ->
           VMRecord("u2", "web", "poweredOff", "c1", None, None,
                    <<Nic("vNIC 1", "m2", None, FALSE, <<>>),
                      Nic("vNIC 2", "m9", None, FALSE, <<>>)>>)
      [] obj = "vmC" ->
           VMRecord("u3", "db", "poweredOff", "esx1", None, "fd00::fe",
                    <<Nic("vNIC 1", "m1", None, FALSE, <<Cidr("fd00::1", "64")>>)>>)
      [] obj = "vmD" ->
           VMRecord("u4", "tmp", "poweredOn", "c1", None, None, <<>>)
      [] obj = "vmE" ->
           VMRecord("u5", "lost", "poweredOn", None, None, None, <<>>)
      [] obj = "vmF" ->
           VMRecord(None, "ghost", "poweredOn", "c1", None, None, <<>>)
      [] obj = "vmG" ->
           VMRecord("u6", "lost", "poweredOff", None, None, None, <<>>)

HostObjects == {"hA", "hB", "hC"}

HostRecord(name, cluster, connectionState, pnics, vnics) ==
    [name |-> name, cluster |-> cluster, connectionState |-> connectionState,
     pnics |-> pnics, vnics |-> vnics]

HostSystem(obj) ==
    CASE obj = "hA" ->
           HostRecord("esx1", "esx1", "connected",
                      <<Nic("vmnic0", "hm1", "1000base-t", FALSE, <<>>)>>,
                      <<Nic("vmk0", "hm2", "virtual", TRUE, <<Cidr("10.0.1.1", "24")>>)>>)
      [] obj = "hB" ->
           HostRecord("esx1", "c1", "disconnected",
                      <<Nic("vmnic0", None, "other", FALSE, <<>>)>>, <<>>)
      [] obj = "hC" ->
           HostRecord("esx2", "c1", "connected",
                      <<Nic("vmnic0", "hm1", "1000base-t", FALSE, <<>>)>>, <<>>)

\* summary.hardware.otherIdentifyingInfo as identifier_dict (key -> stripped
\* value) and summary.config.product of the hosts
Identifiers(obj) ==
    CASE obj = "hA" -> [ServiceTag |-> "sn1", AssetTag |-> "tag7"]
      [] obj = "hB" -> [AssetTag |-> "N/A"]
      [] obj = "hC" -> [EnclosureSerialNumberTag |-> "sn3", SerialNumberTag |-> "sn4"]

Product(obj) ==
    CASE obj = "hA" -> [name |-> "VMware ESXi", version |-> "7.0"]
      [] obj = "hB" -> [name |-> "VMware ESXi", version |-> "6.7"]
      [] obj = "hC" -> [name |-> "VMware ESXi", version |-> "7.0"]

collect_hardware_asset_tag == TRUE

\* The configured sources, one handler instance each, in the order they run.
Sources == <<"vc1", "vc2">>

\* self.site_name = f"vCenter: {name}"
SiteName(h) == Sources[h]

\* settings: a filter is None or a compiled pattern, given by the names it matches
NoFilter == [set |-> FALSE, matches |-> {}]
Filter(names) == [set |-> TRUE, matches |-> names]

host_include_filter == NoFilter
host_exclude_filter == NoFilter
vm_include_filter == NoFilter
vm_exclude_filter == Filter({"tmp"})

passes_filter(name, include_filter, exclude_filter) ==
    IF include_filter.set /\ name \notin include_filter.matches THEN FALSE
    ELSE IF exclude_filter.set /\ name \in exclude_filter.matches THEN FALSE
    ELSE TRUE

(***************************************************************************)
(* Finding the inventory object of a host or VM and writing it back        *)
(***************************************************************************)
\* every [nic, address] of a list of discovered interfaces, in order
RECURSIVE Addresses(_)
Addresses(nics) ==
    IF nics = <<>> THEN <<>>
    ELSE [i \in 1..Len(Head(nics).ips) |-> [nic |-> Head(nics), address |-> Head(nics).ips[i]]]
         \o Addresses(Tail(nics))

FirstAddress(nics, Test(_)) ==
    LET all == Addresses(nics)
        k == FirstIndex(all, Test)
    IN  IF k = 0 THEN NoAddress ELSE all[k].address

\* x.get("mac_address") for x in the discovered interfaces
RECURSIVE MacsOf(_)
MacsOf(nics) ==
    IF nics = <<>> THEN <<>> ELSE <<Head(nics).mac_address>> \o MacsOf(Tail(nics))

\* The search for the object: by name and site / cluster, then by MAC
\* addresses, then by primary IP; each step only when the one before found nothing.
ResolveEager(object_type, data, mac_list, ip4, ip6) ==
    LET exact == get_by_data(object_type, data)
        by_mac == get_object_based_on_macs(object_type, mac_list)
        by_ip == get_object_based_on_primary_ip(object_type, ip4, ip6)
    IN  [exact |-> exact, mac_called |-> TRUE, by_mac |-> by_mac,
         ip_called |-> TRUE, by_ip |-> by_ip,
         object |-> IF by_mac # 0 THEN by_mac ELSE IF exact # 0 THEN exact ELSE by_ip]

Resolve(object_type, data, mac_list, ip4, ip6) ==
    LET exact == get_by_data(object_type, data)
        mac_called == exact = 0
        by_mac == IF mac_called THEN get_object_based_on_macs(object_type, mac_list) ELSE 0
        found == IF exact # 0 THEN exact ELSE by_mac
        ip_called == found = 0
        by_ip == IF ip_called THEN get_object_based_on_primary_ip(object_type, ip4, ip6) ELSE 0
    IN  [exact |-> exact, mac_called |-> mac_called, by_mac |-> by_mac,
         ip_called |-> ip_called, by_ip |-> by_ip,
         object |-> IF found # 0 THEN found ELSE by_ip]

\* the loop over the discovered interfaces: interface and IP address records
RECURSIVE AddIps(_, _, _, _, _)
AddIps(ips, nic_ips, iftype, nic_object, primaries) ==
    IF nic_ips = <<>> THEN ips
    ELSE AddIps(add_update_ip(ips, Head(nic_ips), iftype, nic_object, Head(nic_ips) \in primaries),
                Tail(nic_ips), iftype, nic_object, primaries)

\* "if nic_object is None: add_update_object(...) else: nic_object.update(...)"
WriteInterfaceAlwaysAdd(ints, nic_object, int_data, object) ==
    add_update_interface(ints, int_data, object)

WriteInterface(ints, nic_object, int_data, object) ==
    IF nic_object = 0
    THEN add_update_interface(ints, int_data, object)
    ELSE [items |-> [ints EXCEPT ![nic_object] = update_interface(@, int_data, object)],
          object |-> nic_object]

RECURSIVE SyncInterfaces(_, _, _, _, _, _)
SyncInterfaces(iftype, object, todo, return_data, primaries, inv) ==
    IF todo = <<>> THEN inv
    ELSE LET int_data == Head(todo)
             IsName(e) == e.name = int_data.name
             nic_object == return_data[FirstIndex(return_data, IsName)].nic
             r == WriteInterface(inv.ints, nic_object, int_data, object)
         IN  SyncInterfaces(iftype, object, Tail(todo), return_data, primaries,
                 [ints |-> r.items,
                  ips |-> AddIps(inv.ips, int_data.ips, iftype, r.object, primaries)])

\* From the search to the last interface: what the handler leaves in the
\* inventory. error: map_object_interfaces_to_current_interfaces raised, after
\* the device / VM record was written and before any interface was.
Synced(r, up, m, inv) ==
    [trace |-> r, created |-> r.object = 0, object |-> up.object, error |-> m.error,
     items |-> up.items, ints |-> inv.ints, ips |-> inv.ips, return_data |-> m.return_data]

\* the loop "for int_name, int_data in ...items()" behind the mapping m
WriteInterfaces(iftype, interface_data, primaries, r, up, m) ==
    Synced(r, up, m,
           IF m.error THEN [ints |-> ifstore[iftype], ips |-> ipstore]
           ELSE SyncInterfaces(iftype, up.object, interface_data, m.return_data, primaries,
                               [ints |-> ifstore[iftype], ips |-> ipstore]))

\* nic_object_dict = self.map_object_interfaces_to_current_interfaces(...)
MapInterfaces(iftype, interface_data, primaries, r, up) ==
    WriteInterfaces(iftype, interface_data, primaries, r, up,
        map_object_interfaces_to_current_interfaces(ifstore[iftype], up.object, interface_data))

\* "if object is None: add_update_object(...) else: object.update(...)"
WriteObject(object_type, data, interface_data, primaries, src, r) ==
    MapInterfaces(interface_typ(object_type), interface_data, primaries, r,
        IF r.object = 0
        THEN add_update_object(store[object_type], object_type, data, src)
        ELSE [items |-> [store[object_type] EXCEPT ![r.object] = update(@, data, src)],
              object |-> r.object])

SyncEntity(object_type, data, interface_data, mac_list, ip4, ip6, src) ==
    WriteObject(object_type, data, interface_data, {ip4, ip6}, src,
                Resolve(object_type, data, mac_list, ip4, ip6))

(***************************************************************************)
(* The handlers                                                            *)
(***************************************************************************)
NoTrace ==
    [exact |-> 0, mac_called |-> FALSE, by_mac |-> 0, ip_called |-> FALSE, by_ip |-> 0,
     object |-> 0]

\* what the last handler call did: outcome is "synced", "error" (an exception
\* left the handler) or the reason of the early return; log is the level of the
\* message written when returning early
Call(fn, obj, outcome, log, first_time, trace, created, object, items_before) ==
    [fn |-> fn, obj |-> obj, outcome |-> outcome, log |-> log, first_time |-> first_time,
     trace |-> trace, created |-> created, object |-> object, items_before |-> items_before]

NoCall == Call("none", None, "none", "none", TRUE, NoTrace, FALSE, 0, 0)

UUIDs == {VirtualMachine(o).uuid : o \in VMObjects} \ {None}
VMNames == {VirtualMachine(o).name : o \in VMObjects}
HostNames == {HostSystem(o).name : o \in HostObjects}

NoWrites ==
    [uuid |-> [u \in UUIDs |-> 0], vm_name |-> [n \in VMNames |-> 0],
     host_name |-> [n \in HostNames |-> 0]]

\* an early return of a handler: nothing but the trace changes
Return(fn, obj, outcome, log) ==
    /\ last' = Call(fn, obj, outcome, log, parsing_vms_the_first_time[handler],
                    NoTrace, FALSE, 0, 0)
    /\ view_objects' = view_objects \ {obj}
    /\ UNCHANGED <<inventory_vars, class_vars, writes, run>>

\* the end of a handler call that reached the inventory
Written(fn, obj, object_type, r) ==
    /\ store' = [store EXCEPT ![object_type] = r.items]
    /\ ifstore' = [ifstore EXCEPT ![interface_typ(object_type)] = r.ints]
    /\ ipstore' = r.ips
    /\ last' = Call(fn, obj, IF r.error THEN "error" ELSE "synced", "none",
                    parsing_vms_the_first_time[handler], r.trace, r.created, r.object,
                    Len(store[object_type]))
    /\ view_objects' = view_objects \ {obj}
    /\ run' = IF r.error THEN "aborted" ELSE run

\* "for serial_num_key in [...]: if serial_num_key in identifier_dict.keys()"
Serial(identifier_dict) ==
    IF "EnclosureSerialNumberTag" \in DOMAIN identifier_dict
    THEN identifier_dict["EnclosureSerialNumberTag"]
    ELSE IF "SerialNumberTag" \in DOMAIN identifier_dict
    THEN identifier_dict["SerialNumberTag"]
    ELSE IF "ServiceTag" \in DOMAIN identifier_dict
    THEN identifier_dict["ServiceTag"]
    ELSE None

\* [x.lower() for x in banned_tags]
BannedTags ==
    {"default string", "na", "n/a", "none", "null", "oem", "o.e.m",
     "to be filled by o.e.m.", "unknown"}

\* str.lower() on the asset tags the hosts report
Lower(tag) ==
    CASE tag = "N/A" -> "n/a"
      [] OTHER -> tag

AssetTag(identifier_dict) ==
    IF collect_hardware_asset_tag /\ "AssetTag" \in DOMAIN identifier_dict
    THEN IF Lower(identifier_dict["AssetTag"]) \notin BannedTags
         THEN identifier_dict["AssetTag"] ELSE None
    ELSE None

\* platform = f"{product_name} {product_version}"
Platform(product) == <<product.name, product.version>>

\* the statement "host_data[key]: value" is an annotated target without a
\* value: nothing is assigned and host_data stays as it is
Annotated(data, key, value) == data

\* "if value is not None: host_data[key]: value"
AddIfPresent(data, key, value) ==
    IF value # None THEN Annotated(data, key, value) ELSE data

\* host_data as passed to add_update_object / update
host_data(obj, name, site_name, cluster, status) ==
    AddIfPresent(
        AddIfPresent(
            AddIfPresent([name |-> name, site |-> site_name, cluster |-> cluster,
                          status |-> status],
                         "serial", Serial(Identifiers(obj))),
            "asset_tag", AssetTag(Identifiers(obj))),
        "platform", Platform(Product(obj)))

add_host(obj) ==
    LET host == HostSystem(obj)
        name == host.name
        status == IF host.connectionState = "connected" THEN "active" ELSE "offline"
        standalone == host.cluster = name
        cluster == IF standalone THEN "Standalone ESXi Host" ELSE host.cluster
        IsPrimaryV4(a) == a.nic.primary /\ ~IsV6(a.address.ip)
        IsPrimaryV6(a) == a.nic.primary /\ IsV6(a.address.ip)
        host_primary_ip4 == FirstAddress(host.vnics, IsPrimaryV4)
        host_primary_ip6 == FirstAddress(host.vnics, IsPrimaryV6)
        physical_macs == MacsOf(host.pnics)
        r == SyncEntity(NBDevices, host_data(obj, name, SiteName(handler), cluster, status),
                        host.pnics \o host.vnics, physical_macs,
                        host_primary_ip4, host_primary_ip6, obj)
    IN  IF InSeq(name, processed_host_names)
        THEN Return("add_host", obj, "duplicate_name", "warning")
        ELSE IF ~passes_filter(name, host_include_filter, host_exclude_filter)
        THEN /\ processed_host_names' = Append(processed_host_names, name)
             /\ last' = Call("add_host", obj, "filtered", "debug",
                             parsing_vms_the_first_time[handler], NoTrace, FALSE, 0, 0)
             /\ view_objects' = view_objects \ {obj}
             /\ UNCHANGED <<inventory_vars, processed_vm_names, processed_vm_uuid,
                            standalone_hosts, writes, run>>
        ELSE /\ processed_host_names' = Append(processed_host_names, name)
             /\ standalone_hosts' = IF standalone THEN Append(standalone_hosts, host.cluster)
                                    ELSE standalone_hosts
             /\ Written("add_host", obj, NBDevices, r)
             /\ writes' = [writes EXCEPT !.host_name[name] = @ + 1]
             /\ UNCHANGED <<processed_vm_names, processed_vm_uuid>>

\* the test "name in self.processed_vm_names"
NameProcessedNever(name) == FALSE

NameProcessed(name) == InSeq(name, processed_vm_names)

\* the test "self.parsing_vms_the_first_time == True and status == 'offline'"
IgnoreOfflineNever(first_time, status) == FALSE

IgnoreOfflineAlways(first_time, status) == status = "offline"

IgnoreOffline(first_time, status) == first_time /\ status = "offline"

\* "cluster = get_string_or_none(grab(obj, 'runtime.host.parent.name'))",
\* "if cluster is None:"
ClusterMissingNever(cluster) == FALSE

ClusterMissing(cluster) == cluster = None

\* "if cluster in self.standalone_hosts: cluster = 'Standalone ESXi Host'"
StandaloneClusterAsReported(cluster) == cluster

StandaloneCluster(cluster) ==
    IF InSeq(cluster, standalone_hosts) THEN "Standalone ESXi Host" ELSE cluster

add_virtual_machine(obj) ==
    LET vm == VirtualMachine(obj)
        name == vm.name
        vm_uuid == vm.uuid
        status == IF vm.powerState = "poweredOn" THEN "active" ELSE "offline"
        cluster == StandaloneCluster(vm.cluster)
        vm_data == [name |-> name, site |-> None, cluster |-> cluster, status |-> status]
        HasGateway4(a) == vm.gateway4 # None /\ NetworkOf(vm.gateway4) = NetworkOf(a.address.ip)
        HasGateway6(a) == vm.gateway6 # None /\ NetworkOf(vm.gateway6) = NetworkOf(a.address.ip)
        vm_primary_ip4 == FirstAddress(vm.nics, HasGateway4)
        vm_primary_ip6 == FirstAddress(vm.nics, HasGateway6)
        nic_macs == MacsOf(vm.nics)
        r == SyncEntity(NBVMs, vm_data, vm.nics, nic_macs, vm_primary_ip4, vm_primary_ip6, obj)
    IN  IF vm_uuid = None \/ InSeq(vm_uuid, processed_vm_uuid)
        THEN Return("add_virtual_machine", obj,
                    IF vm_uuid = None THEN "no_uuid" ELSE "processed_uuid", "none")
        ELSE IF IgnoreOffline(parsing_vms_the_first_time[handler], status)
        THEN Return("add_virtual_machine", obj, "offline_first_run", "debug")
        ELSE IF ~passes_filter(name, vm_include_filter, vm_exclude_filter)
        THEN Return("add_virtual_machine", obj, "filtered", "debug")
        ELSE IF ClusterMissing(vm.cluster)
        THEN Return("add_virtual_machine", obj, "no_cluster", "error")
        ELSE IF NameProcessed(name)
        THEN Return("add_virtual_machine", obj, "duplicate_name", "warning")
        ELSE /\ processed_vm_uuid' = Append(processed_vm_uuid, vm_uuid)
             /\ processed_vm_names' = Append(processed_vm_names, name)
             /\ Written("add_virtual_machine", obj, NBVMs, r)
             /\ writes' = [writes EXCEPT !.uuid[vm_uuid] = @ + 1, !.vm_name[name] = @ + 1]
             /\ UNCHANGED <<processed_host_names, standalone_hosts>>

(***************************************************************************)
(* apply(): the views in the order of object_mapping, each iterated to its *)
(* end. The datacenter, cluster and network views hold no object here:     *)
(* their handlers write cluster groups, clusters and self.networks only.   *)
(***************************************************************************)
object_mapping ==
    <<"datacenter", "cluster", "network", "host", "virtual machine", "offline virtual machine">>

\* what container_view.view can hold: any hosts and VMs of the vCenter; both
\* VirtualMachine views of one run hold the same VMs
Views(view_name) ==
    CASE view_name = "host" -> {v \in SUBSET HostObjects : Cardinality(v) <= MaxHosts}
      [] view_name = "virtual machine" -> {v \in SUBSET VMObjects : Cardinality(v) <= MaxVMs}
      [] view_name = "offline virtual machine" -> {vm_view}
      [] OTHER -> {{}}

\* The inventory as read from NetBox before the sources run.
EmptyInventory ==
    [store |-> [t \in ObjectTypes |-> <<>>], ifstore |-> [t \in InterfaceTypes |-> <<>>],
     ipstore |-> <<>>]

NetBoxInventory ==
    [store |-> [t \in ObjectTypes |->
                  IF t = NBVMs
                  THEN <<Object("old", None, "c1", "active",
                                PrimaryDict(Cidr("10.0.0.1", "24")), PrimaryNone, "netbox")>>
                  ELSE <<Object("esx9", "site9", "c1", "active",
                                PrimaryInt(7), PrimaryNone, "netbox")>>],
     ifstore |-> [t \in InterfaceTypes |->
                  IF t = NBVMInterfaces
                  THEN <<Interface("vNIC 1", "m9", None, 1)>>
                  ELSE <<Interface("vmk0", None, "virtual", 1)>>],
     ipstore |-> <<IPAddress(Cidr("10.0.1.1", "24"), NBInterfaces, 1, TRUE, 7)>>]

Inventories == {EmptyInventory, NetBoxInventory}

NoProbe ==
    [fn |-> "none", object_type |-> NBDevices, mac_list |-> <<>>, ip4 |-> NoAddress,
     ip6 |-> NoAddress, result |-> 0]

\* The handler instances exist and no apply() has run.
Idle ==
    /\ processed_host_names = <<>>
    /\ processed_vm_names = <<>>
    /\ processed_vm_uuid = <<>>
    /\ standalone_hosts = <<>>
    /\ parsing_vms_the_first_time = [h \in 1..Len(Sources) |-> TRUE]
    /\ handler = 0
    /\ view = 0
    /\ view_objects = {}
    /\ run = "idle"
    /\ vm_view = {}
    /\ last = NoCall
    /\ writes = NoWrites

Init ==
    /\ \E inv \in Inventories :
          /\ store = inv.store
          /\ ifstore = inv.ifstore
          /\ ipstore = inv.ipstore
    /\ Idle
    /\ probe = NoProbe

\* the next source's apply() is called
StartApply ==
    /\ run \in {"idle", "done"}
    /\ handler < Len(Sources)
    /\ handler' = handler + 1
    /\ run' = "running"
    /\ view' = 0
    /\ view_objects' = {}
    /\ vm_view' = {}
    /\ last' = NoCall
    /\ writes' = NoWrites
    /\ UNCHANGED <<inventory_vars, class_vars, parsing_vms_the_first_time, probe>>

\* the else branch of "if view_name != 'offline virtual machine'"
SecondIterationEarly(view_name) ==
    view_name \in {"virtual machine", "offline virtual machine"}

SecondIteration(view_name) == view_name = "offline virtual machine"

\* one turn of "for view_name, view_details in object_mapping.items()" up to
\* the loop over the view's objects
CreateView ==
    /\ run = "running"
    /\ view_objects = {}
    /\ view < Len(object_mapping)
    /\ view' = view + 1
    /\ \E objects \in Views(object_mapping[view + 1]) :
          /\ view_objects' = objects
          /\ vm_view' = IF object_mapping[view + 1] = "virtual machine" THEN objects ELSE vm_view
    /\ parsing_vms_the_first_time' =
          IF SecondIteration(object_mapping[view + 1])
          THEN [parsing_vms_the_first_time EXCEPT ![handler] = FALSE]
          ELSE parsing_vms_the_first_time
    /\ UNCHANGED <<inventory_vars, class_vars, handler, run, last, writes, probe>>

\* view_details.get("view_handler")(obj) for the next object of the view
HandleHost ==
    /\ run = "running"
    /\ view > 0
    /\ object_mapping[view] = "host"
    /\ \E obj \in view_objects : add_host(obj)
    /\ UNCHANGED <<parsing_vms_the_first_time, handler, view, backend_vars, probe>>

HandleVirtualMachine ==
    /\ run = "running"
    /\ view > 0
    /\ object_mapping[view] \in {"virtual machine", "offline virtual machine"}
    /\ \E obj \in view_objects : add_virtual_machine(obj)
    /\ UNCHANGED <<parsing_vms_the_first_time, handler, view, backend_vars, probe>>

\* the last view is exhausted: update_basic_data() and apply() returns
FinishApply ==
    /\ run = "running"
    /\ view = Len(object_mapping)
    /\ view_objects = {}
    /\ run' = "done"
    /\ UNCHANGED <<inventory_vars, class_vars, parsing_vms_the_first_time, handler, view,
                   view_objects, backend_vars, last, writes, probe>>

Next == StartApply \/ CreateView \/ HandleHost \/ HandleVirtualMachine \/ FinishApply

Spec == Init /\ [][Next]_vars

(***************************************************************************)
(* The resolvers called on their own: any inventory, any argument.         *)
(* SpecMacs grows the interface lists and calls get_object_based_on_macs,  *)
(* SpecIp grows the device / VM lists and calls                            *)
(* get_object_based_on_primary_ip.                                         *)
(***************************************************************************)
\* three devices and three VMs for the interfaces to belong to
Parents ==
    [t \in ObjectTypes |->
        <<Object("a", "s", "c", "active", PrimaryNone, PrimaryNone, "netbox"),
          Object("b", "s", "c", "active", PrimaryNone, PrimaryNone, "netbox"),
          Object("c", "s", "c", "active", PrimaryNone, PrimaryNone, "netbox")>>]

\* mac_list as the handlers build it: a host's physical NIC may have no MAC
MacLists == {<<>>, <<"m1">>, <<None>>, <<"m1", None>>}

\* interfaces of the other kind, which the resolver must not count
Decoys == <<Interface("decoy0", "m1", None, 3), Interface("decoy1", None, None, 2)>>

InitMacs ==
    /\ store = Parents
    /\ \E grown \in InterfaceTypes :
          ifstore = [t \in InterfaceTypes |-> IF t = grown THEN <<>> ELSE Decoys]
    /\ ipstore = <<>>
    /\ Idle
    /\ probe = NoProbe

AddInterface ==
    /\ \E t \in InterfaceTypes, mac \in {None, "m1"}, parent \in 0..3 :
          /\ ifstore[t] # Decoys
          /\ Len(ifstore[t]) < MaxInterfaces
          /\ ifstore' = [ifstore EXCEPT ![t] = Append(@, Interface("eth0", mac, None, parent))]
    /\ probe' = NoProbe
    /\ UNCHANGED <<store, ipstore, class_vars, control_vars, backend_vars, last, writes>>

CallMacs ==
    /\ probe.fn = "none"
    /\ \E t \in ObjectTypes, mac_list \in MacLists :
          probe' = [NoProbe EXCEPT !.fn = "get_object_based_on_macs",
                                   !.object_type = t, !.mac_list = mac_list,
                                   !.result = get_object_based_on_macs(t, mac_list)]
    /\ UNCHANGED <<inventory_vars, class_vars, control_vars, backend_vars, last, writes>>

NextMacs == AddInterface \/ CallMacs

SpecMacs == InitMacs /\ [][NextMacs]_vars

\* the stored primary addresses: none, inline, by id of an NBIPAddresses record
\* (7: 10.0.0.1/24, 8: no such record)
StoredV4 == {PrimaryNone, PrimaryDict(Cidr("10.0.0.1", "24")), PrimaryInt(7), PrimaryInt(8),
             PrimaryDict(Cidr("10.0.0.2", "24"))}
StoredV6 == {PrimaryNone, PrimaryDict(Cidr("fd00::1", "64"))}

NeedlesV4 == {NoAddress, Cidr("10.0.0.1", "24"), Cidr("10.0.0.1", "")}
NeedlesV6 == {NoAddress, Cidr("fd00::1", "64")}

InitIp ==
    /\ store = [t \in ObjectTypes |-> <<>>]
    /\ ifstore = [t \in InterfaceTypes |-> <<>>]
    /\ ipstore = <<IPAddress(Cidr("10.0.0.1", "24"), NBInterfaces, 0, TRUE, 7)>>
    /\ Idle
    /\ probe = NoProbe

AddRecord ==
    /\ Len(store[NBDevices]) + Len(store[NBVMs]) < MaxRecords
    /\ \E t \in ObjectTypes, ip4 \in StoredV4, ip6 \in StoredV6 :
          store' = [store EXCEPT ![t] = Append(@, Object("a", "s", "c", "active", ip4, ip6, "netbox"))]
    /\ probe' = NoProbe
    /\ UNCHANGED <<ifstore, ipstore, class_vars, control_vars, backend_vars, last, writes>>

CallIp ==
    /\ probe.fn = "none"
    /\ \E t \in ObjectTypes, ip4 \in NeedlesV4, ip6 \in NeedlesV6 :
          probe' = [NoProbe EXCEPT !.fn = "get_object_based_on_primary_ip",
                                   !.object_type = t, !.ip4 = ip4, !.ip6 = ip6,
                                   !.result = get_object_based_on_primary_ip(t, ip4, ip6)]
    /\ UNCHANGED <<inventory_vars, class_vars, control_vars, backend_vars, last, writes>>

NextIp == AddRecord \/ CallIp

SpecIp == InitIp /\ [][NextIp]_vars

(***************************************************************************)
(* The reconciler called on its own (SpecMap): device 1 of the inventory   *)
(* gets interfaces with names of their own, device 2 holds interfaces the  *)
(* reconciler must not see, and any discovered interfaces are mapped.      *)
(***************************************************************************)
CurrentNameSet == {"Nic1", "eth0", "eth1"}
DiscoveredNameSet == {"eth0", "eth1", "vmk0"}
IfaceTypes == {"virtual", "1000base-t"}

\* the keys of interface_data_dict are distinct names
DiscoveredNics ==
    {Nic(n, mac, t, FALSE, <<>>) : n \in DiscoveredNameSet, mac \in {None, "m1"}, t \in IfaceTypes}

DiscoveredLists ==
    UNION {{l \in [1..n -> DiscoveredNics] :
                \A i \in 1..n, j \in 1..n : l[i].name = l[j].name => i = j} :
           n \in 0..MaxDiscovered}

OtherDevice == <<Interface("eth0", "m1", "virtual", 2), Interface("Nic1", "m1", "1000base-t", 2)>>

InitMap ==
    /\ store = Parents
    /\ ifstore = [t \in InterfaceTypes |-> IF t = NBInterfaces THEN OtherDevice ELSE <<>>]
    /\ ipstore = <<>>
    /\ Idle
    /\ probe = NoProbe

\* NetBox holds one more interface of device 1
AddCurrent ==
    /\ Cardinality({i \in 1..Len(ifstore[NBInterfaces]) : ifstore[NBInterfaces][i].parent = 1})
           < MaxCurrent
    /\ \E n \in CurrentNameSet, mac \in {None, "m1"}, t \in IfaceTypes :
          /\ \A i \in 1..Len(ifstore[NBInterfaces]) :
                ifstore[NBInterfaces][i].parent = 1 => ifstore[NBInterfaces][i].name # n
          /\ ifstore' = [ifstore EXCEPT ![NBInterfaces] = Append(@, Interface(n, mac, t, 1))]
    /\ probe' = NoProbe
    /\ UNCHANGED <<store, ipstore, class_vars, control_vars, backend_vars, last, writes>>

CallMap ==
    /\ probe.fn = "none"
    /\ \E interface_data \in DiscoveredLists :
          probe' = [fn |-> "map_object_interfaces_to_current_interfaces",
                    interface_data |-> interface_data,
                    result |-> map_object_interfaces_to_current_interfaces(
                                   ifstore[NBInterfaces], 1, interface_data)]
    /\ UNCHANGED <<inventory_vars, class_vars, control_vars, backend_vars, last, writes>>

NextMap == AddCurrent \/ CallMap

SpecMap == InitMap /\ [][NextMap]_vars

(***************************************************************************)
(* Two runs of the program over the same vCenter: apply() of the first     *)
(* source runs to its end, the process ends, and a new process runs        *)
(* apply() of the same source against the inventory the first run left.    *)
(* The vCenter returns the same hosts and VMs in the same order in every   *)
(* view of both runs.                                                       *)
(***************************************************************************)
\* the lists a container view can return: objects without repetition
Orders(objects, n) ==
    UNION {{l \in [1..k -> objects] : \A i, j \in 1..k : l[i] = l[j] => i = j} : k \in 0..n}

NoSnapshot == [store |-> <<>>, ifstore |-> <<>>, ipstore |-> <<>>]

InitRerun ==
    /\ \E inv \in Inventories :
          /\ store = inv.store
          /\ ifstore = inv.ifstore
          /\ ipstore = inv.ipstore
    /\ Idle
    /\ \E hosts \in Orders(HostObjects, MaxHosts), vms \in Orders(VMObjects, MaxVMs) :
          probe = [fn |-> "apply", hosts |-> hosts, vms |-> vms, round |-> 1,
                   snapshot |-> NoSnapshot]

\* "for obj in view_objects": the next object of the view
NextObject(order) ==
    order[CHOOSE i \in 1..Len(order) :
             /\ order[i] \in view_objects
             /\ \A j \in 1..(i - 1) : order[j] \notin view_objects]

StartRun == StartApply /\ handler = 0

CreateViewRerun ==
    /\ CreateView
    /\ object_mapping[view'] = "host" => view_objects' = Range(probe.hosts)
    /\ object_mapping[view'] = "virtual machine" => view_objects' = Range(probe.vms)

HandleHostRerun == HandleHost /\ last'.obj = NextObject(probe.hosts)

HandleVirtualMachineRerun == HandleVirtualMachine /\ last'.obj = NextObject(probe.vms)

\* the process ends after a complete run and the program is started again:
\* the class body runs again, the inventory is what the first run left
Restart ==
    /\ run = "done"
    /\ probe.round = 1
    /\ probe' = [probe EXCEPT !.round = 2,
                              !.snapshot = [store |-> store, ifstore |-> ifstore,
                                            ipstore |-> ipstore]]
    /\ processed_host_names' = <<>>
    /\ processed_vm_names' = <<>>
    /\ processed_vm_uuid' = <<>>
    /\ standalone_hosts' = <<>>
    /\ parsing_vms_the_first_time' = [h \in 1..Len(Sources) |-> TRUE]
    /\ handler' = 0
    /\ view' = 0
    /\ view_objects' = {}
    /\ run' = "idle"
    /\ vm_view' = {}
    /\ last' = NoCall
    /\ writes' = NoWrites
    /\ UNCHANGED inventory_vars

NextRerun ==
    \/ StartRun
    \/ CreateViewRerun
    \/ HandleHostRerun
    \/ HandleVirtualMachineRerun
    \/ FinishApply
    \/ Restart

SpecRerun == InitRerun /\ [][NextRerun]_vars

(***************************************************************************)
(* Properties of the MAC resolver (SpecMacs)                               *)
(***************************************************************************)
\* the interfaces searched for a device / a VM, as positions of the list
MatchingInterfaces(object_type, mac_list) ==
    LET ints == ifstore[IF object_type = NBDevices THEN NBInterfaces ELSE NBVMInterfaces]
    IN  {i \in 1..Len(ints) : ints[i].mac_address \in Range(mac_list)}

\* the number of matching interfaces of parent p
MatchCount(object_type, mac_list, p) ==
    LET ints == ifstore[IF object_type = NBDevices THEN NBInterfaces ELSE NBVMInterfaces]
    IN  Cardinality({i \in MatchingInterfaces(object_type, mac_list) : ints[i].parent = p})

\* the parents with at least one matching interface
MatchedParents(object_type, mac_list) ==
    {p \in 1..Len(store[object_type]) : MatchCount(object_type, mac_list, p) > 0}

MacsCalled == probe.fn = "get_object_based_on_macs"

IpCalled == probe.fn = "get_object_based_on_primary_ip"

\* the records of the kind whose stored primary IPv4 / IPv6 equals the needle
Needle(address) == IF address = NoAddress THEN None ELSE StripMask(address)

MatchesOnV4 ==
    {i \in 1..Len(store[probe.object_type]) :
        matches_device_primary_ip(store[probe.object_type][i].primary_ip4, Needle(probe.ip4))}

MatchesOnV6 ==
    {i \in 1..Len(store[probe.object_type]) :
        matches_device_primary_ip(store[probe.object_type][i].primary_ip6, Needle(probe.ip6))}

First(hits) == IF hits = {} THEN 0 ELSE CHOOSE i \in hits : \A j \in hits : i <= j

\* C10 as stated: IPv4 has precedence over all records. If any record matches
\* on IPv4 the first such record is returned; a record matching only on IPv6
\* is returned only when no record matches on IPv4.
C10_V4PrecedenceOverAllRecords ==
    IpCalled =>
        IF MatchesOnV4 # {} THEN probe.result = First(MatchesOnV4)
        ELSE probe.result = First(MatchesOnV6)

\* C10 amended: the resolver returns the first record in store order whose
\* stored primary IPv4 equals the supplied IPv4 or whose stored primary IPv6
\* equals the supplied IPv6, and none when no record matches on either.
C10_FirstRecordMatchingEither ==
    IpCalled => probe.result = First(MatchesOnV4 \cup MatchesOnV6)

\* a record matching only on IPv6 is returned although a later one matches on IPv4
C10_Witness ==
    /\ IpCalled
    /\ probe.result # 0
    /\ probe.result \in MatchesOnV6 \ MatchesOnV4
    /\ MatchesOnV4 # {}

(***************************************************************************)
(* Properties of the handlers and of apply() (Spec)                        *)
(***************************************************************************)
\* the step is the handler of the current view called on obj
HostStep(obj) ==
    /\ obj \in view_objects
    /\ object_mapping[view] = "host"
    /\ view_objects' = view_objects \ {obj}

VMStep(obj) ==
    /\ obj \in view_objects
    /\ object_mapping[view] \in {"virtual machine", "offline virtual machine"}
    /\ view_objects' = view_objects \ {obj}

Offline(obj) == VirtualMachine(obj).powerState # "poweredOn"

FirstIteration == parsing_vms_the_first_time[handler]

\* C1: while the pass flag is true, add_virtual_machine called on a VM that
\* is not poweredOn creates or updates no record of the inventory and leaves
\* processed_vm_uuid and processed_vm_names unchanged, whatever preceded.
C1_OfflineIgnoredFirstPass ==
    [][\A obj \in VMObjects :
          (VMStep(obj) /\ FirstIteration /\ Offline(obj))
              => UNCHANGED <<store, ifstore, ipstore, processed_vm_uuid, processed_vm_names>>]_vars

\* an offline VM was ignored in the first pass after other VMs were processed
C1_Witness ==
    /\ last.outcome = "offline_first_run"
    /\ Offline(last.obj)
    /\ processed_vm_names # <<>>

\* the host name / the VM UUID or VM name of obj is already processed
HostProcessed(obj) == InSeq(HostSystem(obj).name, processed_host_names)

VMProcessed(obj) ==
    \/ InSeq(VirtualMachine(obj).uuid, processed_vm_uuid)
    \/ InSeq(VirtualMachine(obj).name, processed_vm_names)

\* C2: within one run each VM UUID, each VM name and each host name leads to
\* at most one create-or-update of a device / VM record (every change of
\* these records is counted), and a host or VM whose host name, UUID or VM
\* name is already processed is skipped without touching the store.
C2_AtMostOnePerKey ==
    /\ [](/\ \A u \in UUIDs : writes.uuid[u] <= 1
          /\ \A n \in VMNames : writes.vm_name[n] <= 1
          /\ \A n \in HostNames : writes.host_name[n] <= 1)
    /\ [][/\ (store' # store /\ run = "running") => writes' # writes
          /\ \A obj \in HostObjects :
                (HostStep(obj) /\ HostProcessed(obj))
                    => UNCHANGED <<store, ifstore, ipstore, writes>>
          /\ \A obj \in VMObjects :
                (VMStep(obj) /\ VMProcessed(obj))
                    => UNCHANGED <<store, ifstore, ipstore, writes>>]_vars

\* a VM is skipped for a name that was written once in this run
C2_Witness ==
    /\ last.fn = "add_virtual_machine"
    /\ last.outcome = "duplicate_name"
    /\ writes.vm_name[VirtualMachine(last.obj).name] = 1

\* an active VM a and an offline VM b of the run's VM population with
\* different UUIDs and one name, both passing the filter and having a cluster
Twins(a, b) ==
    LET vm_a == VirtualMachine(a)
        vm_b == VirtualMachine(b)
    IN  /\ a \in vm_view /\ b \in vm_view
        /\ ~Offline(a) /\ Offline(b)
        /\ vm_a.uuid # None /\ vm_b.uuid # None /\ vm_a.uuid # vm_b.uuid
        /\ vm_a.name = vm_b.name
        /\ passes_filter(vm_a.name, vm_include_filter, vm_exclude_filter)
        /\ vm_a.cluster # None /\ vm_b.cluster # None

\* C3: if an active and an offline VM with different UUIDs share a name, pass
\* the filter and have a cluster, then at the end of the run every VM record
\* of that name written by the source holds the data of an active VM, and the
\* offline VM is skipped as a duplicate name in the second pass.
C3_ActiveTwinWins ==
    /\ [](run = "done" =>
            \A a \in VMObjects, b \in VMObjects : Twins(a, b) =>
                \A i \in 1..Len(store[NBVMs]) :
                    (/\ store[NBVMs][i].name = VirtualMachine(a).name
                     /\ store[NBVMs][i].src \in VMObjects)
                        => ~Offline(store[NBVMs][i].src))
    /\ [][\A a \in VMObjects, b \in VMObjects :
            (Twins(a, b) /\ VMStep(b) /\ ~FirstIteration)
                => last'.outcome = "duplicate_name"]_vars

\* The statement of C3 restricted to the run of the first handler, which finds
\* the class-level lists empty.
C3_FirstRunOnly ==
    /\ [](run = "done" /\ handler = 1 =>
            \A a \in VMObjects, b \in VMObjects : Twins(a, b) =>
                \A i \in 1..Len(store[NBVMs]) :
                    (/\ store[NBVMs][i].name = VirtualMachine(a).name
                     /\ store[NBVMs][i].src \in VMObjects)
                        => ~Offline(store[NBVMs][i].src))
    /\ [][\A a \in VMObjects, b \in VMObjects :
            (Twins(a, b) /\ VMStep(b) /\ ~FirstIteration /\ handler = 1)
                => last'.outcome = "duplicate_name"]_vars

\* the conditions add_virtual_machine checks before it resolves a VM
Resolvable(obj) ==
    LET vm == VirtualMachine(obj)
    IN  /\ vm.uuid # None
        /\ ~InSeq(vm.uuid, processed_vm_uuid)
        /\ passes_filter(vm.name, vm_include_filter, vm_exclude_filter)
        /\ vm.cluster # None
        /\ ~InSeq(vm.name, processed_vm_names)

\* C4 as stated: an offline VM present in both VM iterations is not created
\* in the first iteration and is created in the second.
C4_OfflineCreatedSecondPass ==
    [][\A obj \in VMObjects : (VMStep(obj) /\ Offline(obj)) =>
          IF FirstIteration
          THEN store' = store
          ELSE /\ last'.outcome = "synced"
               /\ store'[NBVMs][last'.object].src = obj]_vars

\* C4 amended: an offline VM present in both VM iterations is neither created
\* nor updated in the first iteration; in the second iteration its VM record
\* is created or updated exactly when it has a UUID that is not yet
\* processed, passes the filter, has a cluster and a name that is not yet
\* processed, and otherwise it is skipped and the store is left untouched.
C4_OfflineResolvedSecondPass ==
    [][\A obj \in VMObjects : (VMStep(obj) /\ Offline(obj)) =>
          IF FirstIteration
          THEN UNCHANGED <<store, ifstore, ipstore>>
          ELSE IF Resolvable(obj)
          THEN /\ last'.outcome \in {"synced", "error"}
               /\ last'.object \in 1..Len(store'[NBVMs])
               /\ store'[NBVMs][last'.object].src = obj
               /\ store'[NBVMs][last'.object].name = VirtualMachine(obj).name
          ELSE /\ last'.outcome \notin {"synced", "error"}
               /\ UNCHANGED <<store, ifstore, ipstore>>]_vars

\* an offline VM got its record in the second iteration
C4_Witness ==
    /\ last.fn = "add_virtual_machine"
    /\ Offline(last.obj)
    /\ ~last.first_time
    /\ last.outcome = "synced"
    /\ store[NBVMs][last.object].src = last.obj

\* C5: when a handler's run begins the processed sets and the standalone
\* hosts are empty and the pass flag is true.
C5_FreshDedupState ==
    (run = "running" /\ view = 0) =>
        /\ processed_host_names = <<>>
        /\ processed_vm_names = <<>>
        /\ processed_vm_uuid = <<>>
        /\ standalone_hosts = <<>>
        /\ parsing_vms_the_first_time[handler]

LastType == IF last.fn = "add_host" THEN NBDevices ELSE NBVMs

\* C7: for every host and VM processed, the MAC resolver is called exactly
\* when the exact lookup returned none, the primary-IP resolver exactly when
\* the MAC resolver returned none too, and a record is created exactly when
\* all three returned none; otherwise the first record found is updated with
\* the discovered data and the number of records stays the same.
C7_ResolutionOrder ==
    last.outcome \in {"synced", "error"} =>
        LET t == last.trace
            records == store[LastType]
        IN  /\ t.mac_called = (t.exact = 0)
            /\ t.ip_called = (t.exact = 0 /\ t.by_mac = 0)
            /\ ~t.mac_called => t.by_mac = 0
            /\ ~t.ip_called => t.by_ip = 0
            /\ last.created = (t.exact = 0 /\ t.by_mac = 0 /\ t.by_ip = 0)
            /\ Len(records) = last.items_before + (IF last.created THEN 1 ELSE 0)
            /\ ~last.created =>
                   last.object = (IF t.exact # 0 THEN t.exact
                                  ELSE IF t.by_mac # 0 THEN t.by_mac ELSE t.by_ip)
            /\ last.object \in 1..Len(records)
            /\ records[last.object].src = last.obj

\* a record found by the primary-IP resolver was updated
C7_Witness ==
    /\ last.outcome = "synced"
    /\ ~last.created
    /\ last.trace.by_ip # 0
    /\ last.object = last.trace.by_ip

(***************************************************************************)
(* Properties of the reconciler (SpecMap)                                  *)
(***************************************************************************)
MapCalled == probe.fn = "map_object_interfaces_to_current_interfaces"

\* the call returned a mapping (no exception left it)
MapReturned == MapCalled /\ ~probe.result.error

\* the entries [name, nic] made so far, in the order of the discovered
\* interfaces; nic is a position of the interface list, 0 for none
Mapping == probe.result.return_data

Discovered(k) == probe.interface_data[k]

\* the interfaces device 1 has in the inventory
Existing == {e \in 1..Len(ifstore[NBInterfaces]) : ifstore[NBInterfaces][e].parent = 1}

Current(e) == ifstore[NBInterfaces][e]

KindOf(type) == IF type = None \/ type = "virtual" THEN "virtual" ELSE "physical"

\* the existing interfaces assigned to the discovered interfaces before k
Before(k) == {Mapping[j].nic : j \in 1..(k - 1)} \ {0}

Latest(S) == CHOOSE e \in S : \A f \in S : f <= e

\* the existing interface of the same name, if not yet assigned
NameCandidate(k) ==
    LET named == {e \in Existing \ Before(k) : Current(e).name = Discovered(k).name}
    IN  IF named = {} THEN 0 ELSE Latest(named)

\* the existing interfaces with the MAC of k: of the same kind, of any kind
SameKindMac(k) ==
    {e \in Existing : /\ Discovered(k).mac_address # None
                      /\ Current(e).mac_address = Discovered(k).mac_address
                      /\ KindOf(Current(e).type) = KindOf(Discovered(k).type)}

AnyKindMac(k) ==
    {e \in Existing : /\ Discovered(k).mac_address # None
                      /\ Current(e).mac_address = Discovered(k).mac_address}

\* what name and MAC give for k: name, MAC within the kind, MAC across kinds
CascadeChoice(k) ==
    IF NameCandidate(k) # 0 THEN NameCandidate(k)
    ELSE IF SameKindMac(k) # {} THEN Latest(SameKindMac(k))
    ELSE IF AnyKindMac(k) # {} /\ Latest(AnyKindMac(k)) \notin Before(k)
         THEN Latest(AnyKindMac(k))
    ELSE 0

\* C11: in a returned mapping no existing interface is assigned to two
\* discovered interface names.
C11_NoInterfaceAssignedTwice ==
    MapReturned =>
        \A j \in 1..Len(Mapping), k \in 1..Len(Mapping) :
            (j # k /\ Mapping[j].nic # 0) => Mapping[j].nic # Mapping[k].nic

\* two discovered interfaces share the MAC of one existing interface and are
\* mapped to different existing interfaces
C11_Witness ==
    /\ MapReturned
    /\ \E j \in 1..Len(Mapping), k \in 1..Len(Mapping) :
          /\ j < k
          /\ Discovered(j).mac_address = Discovered(k).mac_address
          /\ Mapping[j].nic \in AnyKindMac(j)
          /\ Mapping[k].nic # 0
          /\ Mapping[k].nic # Mapping[j].nic

\* C12: for every parent and every map of discovered interfaces the
\* reconciler returns normally and the keys of the mapping are exactly the
\* discovered interface names.
C12_ReturnsTotalMapping ==
    MapCalled =>
        /\ ~probe.result.error
        /\ {Mapping[k].name : k \in 1..Len(Mapping)}
               = {Discovered(k).name : k \in 1..Len(probe.interface_data)}

\* C13 as stated: every discovered interface whose name equals the name of
\* an existing interface of the parent is mapped to that interface.
C13_NameMatchAlways ==
    MapReturned =>
        \A k \in 1..Len(Mapping), e \in Existing :
            Current(e).name = Discovered(k).name => Mapping[k].nic = e

\* C13 amended: in a returned mapping a discovered interface whose name equals
\* the name of an existing interface of the parent is mapped to that
\* interface, whatever the MAC addresses, unless the existing interface was
\* assigned by MAC to a discovered interface earlier in the iteration; then
\* the earlier one keeps it.
C13_NameMatchUnlessTaken ==
    MapReturned =>
        \A k \in 1..Len(Mapping), e \in Existing :
            Current(e).name = Discovered(k).name =>
                IF e \in Before(k) THEN Mapping[k].nic # e ELSE Mapping[k].nic = e

\* a name match wins although the MAC of the discovered interface belongs to
\* another existing interface
C13_Witness ==
    /\ MapReturned
    /\ \E k \in 1..Len(Mapping), e \in Existing :
          /\ Current(e).name = Discovered(k).name
          /\ Mapping[k].nic = e
          /\ AnyKindMac(k) # {}
          /\ e \notin AnyKindMac(k)

\* the discovered interfaces and the existing interfaces left over by name
\* and MAC
LeftDiscovered == {k \in 1..Len(Mapping) : CascadeChoice(k) = 0}

LeftExisting == Existing \ {CascadeChoice(k) : k \in 1..Len(Mapping)}

\* position in the sorted list of names
RankDiscovered(k) ==
    1 + Cardinality({j \in LeftDiscovered : NameLess(Discovered(j).name, Discovered(k).name)})

RankExisting(e) ==
    1 + Cardinality({f \in LeftExisting : NameLess(Current(f).name, Current(e).name)})

\* C14: the discovered names and the existing names left over by name and MAC
\* are sorted and paired index for index; a left over discovered name beyond
\* the number of left over existing interfaces maps to none, a left over
\* existing interface beyond the number of discovered names appears nowhere.
C14_PositionalPairing ==
    MapReturned =>
        /\ \A k \in LeftDiscovered :
              IF RankDiscovered(k) <= Cardinality(LeftExisting)
              THEN /\ Mapping[k].nic \in LeftExisting
                   /\ RankExisting(Mapping[k].nic) = RankDiscovered(k)
              ELSE Mapping[k].nic = 0
        /\ \A e \in LeftExisting :
              RankExisting(e) > Cardinality(LeftDiscovered)
                  => \A k \in 1..Len(Mapping) : Mapping[k].nic # e

\* two discovered interfaces are paired with two existing ones by position
C14_Witness ==
    /\ MapReturned
    /\ Cardinality(LeftDiscovered) = 2
    /\ Cardinality(LeftExisting) = 2
    /\ \A k \in LeftDiscovered : Mapping[k].nic \in LeftExisting

\* C20: a discovered interface without name match gets an existing interface
\* with its MAC and its kind in preference to one with its MAC and another
\* kind; the MAC match across kinds is made only when none of its kind exists
\* and the candidate is not yet assigned to another discovered interface.
C20_SameKindMacPreferred ==
    MapCalled =>
        \A k \in 1..Len(Mapping) : NameCandidate(k) = 0 =>
            /\ SameKindMac(k) # {} => Mapping[k].nic \in SameKindMac(k)
            /\ (SameKindMac(k) = {} /\ AnyKindMac(k) # {}) =>
                   IF Latest(AnyKindMac(k)) \in Before(k)
                   THEN Mapping[k].nic # Latest(AnyKindMac(k))
                   ELSE Mapping[k].nic = Latest(AnyKindMac(k))

\* the MAC belongs to interfaces of both kinds and the one of the same kind
\* is chosen although the index by MAC alone holds the other
C20_Witness ==
    /\ MapCalled
    /\ \E k \in 1..Len(Mapping) :
          /\ NameCandidate(k) = 0
          /\ SameKindMac(k) # {}
          /\ Latest(AnyKindMac(k)) \notin SameKindMac(k)
          /\ Mapping[k].nic \in SameKindMac(k)

\* the handler step wrote the device / VM record of obj
Stored == last'.outcome \in {"synced", "error"}

\* a standalone host whose device record is in the inventory
StandaloneStored(h) ==
    /\ HostSystem(h).cluster = HostSystem(h).name
    /\ \E i \in 1..Len(store[NBDevices]) : store[NBDevices][i].src = h

\* C15: a host whose reported cluster equals its own name is stored with the
\* cluster 'Standalone ESXi Host', and every VM stored after it that reports
\* the name of that host as its cluster is stored with that cluster too.
C15_StandaloneRedirection ==
    [][/\ \A obj \in HostObjects :
             (HostStep(obj) /\ Stored /\ HostSystem(obj).cluster = HostSystem(obj).name)
                 => store'[NBDevices][last'.object].cluster = "Standalone ESXi Host"
       /\ \A obj \in VMObjects :
             (/\ VMStep(obj) /\ Stored
              /\ \E h \in HostObjects :
                    StandaloneStored(h) /\ HostSystem(h).name = VirtualMachine(obj).cluster)
                 => store'[NBVMs][last'.object].cluster = "Standalone ESXi Host"]_vars

\* a VM reporting the name of a standalone host of the same run was stored
C15_Witness ==
    /\ last.fn = "add_virtual_machine"
    /\ last.outcome = "synced"
    /\ VirtualMachine(last.obj).cluster \in HostNames
    /\ writes.host_name[VirtualMachine(last.obj).cluster] = 1
    /\ store[NBVMs][last.object].cluster = "Standalone ESXi Host"

\* the handler step is a call of add_host or add_virtual_machine on obj
HandlerStep(obj) ==
    \/ obj \in HostObjects /\ HostStep(obj)
    \/ obj \in VMObjects /\ VMStep(obj)

\* the names of the interfaces of the record written by the step, after the step
InterfacesWritten ==
    LET typ == IF last'.fn = "add_host" THEN NBInterfaces ELSE NBVMInterfaces
    IN  {ifstore'[typ][i].name :
            i \in {j \in 1..Len(ifstore'[typ]) : ifstore'[typ][j].parent = last'.object}}

\* the discovered interface names of obj
DiscoveredNames(obj) ==
    LET nics == IF obj \in HostObjects THEN HostSystem(obj).pnics \o HostSystem(obj).vnics
                ELSE VirtualMachine(obj).nics
    IN  {nics[i].name : i \in 1..Len(nics)}

\* C17: every call of a handler either completes with the record and all of
\* its discovered interfaces written, or leaves the inventory and the
\* processed lists exactly as they were before the call.
C17_AllOrNothing ==
    [][\A obj \in HostObjects \cup VMObjects :
          HandlerStep(obj) =>
              \/ /\ last'.outcome = "synced"
                 /\ DiscoveredNames(obj) \subseteq InterfacesWritten
              \/ UNCHANGED <<inventory_vars, processed_host_names, processed_vm_names,
                             processed_vm_uuid>>]_vars

\* the record of a host or VM was written and the call ended in an error
\* before any of its interfaces were written
C17_HalfWritten ==
    /\ last.outcome = "error"
    /\ last.object # 0

\* the calls that drop a host or VM because of an error condition
ErrorDrops == {"duplicate_name", "no_cluster", "no_uuid"}

\* C19: every host or VM dropped because of an error condition (duplicate
\* host name, duplicate VM name, VM without a cluster, VM without a UUID)
\* produces a log message of level warning or error when it is skipped.
C19_NoSilentDrop ==
    last.outcome \in ErrorDrops => last.log \in {"warning", "error"}

\* a VM without a UUID was dropped and nothing was logged
C19_SilentDrop ==
    /\ last.fn = "add_virtual_machine"
    /\ last.outcome = "no_uuid"
    /\ last.log = "none"

\* a VM for which no cluster can be derived
NoCluster(obj) == VirtualMachine(obj).cluster = None

\* the call on obj writes nothing, adds nothing to the processed lists and
\* leaves the iteration running
SkippedUntouched ==
    /\ UNCHANGED <<inventory_vars, processed_vm_uuid, processed_vm_names>>
    /\ run' = run

\* obj has a UUID not yet processed and passes the VM filter
ReachesChecks(obj) ==
    /\ VirtualMachine(obj).uuid # None
    /\ ~InSeq(VirtualMachine(obj).uuid, processed_vm_uuid)
    /\ passes_filter(VirtualMachine(obj).name, vm_include_filter, vm_exclude_filter)

\* C18 (as stated): a VM without a derivable cluster is skipped with a logged
\* error in whichever pass it is seen; nothing is written for it, its UUID and
\* name are not added to the processed lists and the iteration goes on.
C18_ErrorLoggedEveryPass ==
    [][\A obj \in VMObjects :
          (VMStep(obj) /\ NoCluster(obj) /\ ReachesChecks(obj))
              => SkippedUntouched /\ last'.log = "error"]_vars

\* C18 (amended): a VM without a derivable cluster is never written, its UUID
\* and name are never added to the processed lists and the iteration goes
\* on; the error is logged in every pass in which the VM is not set aside as
\* an offline VM of the first pass.
C18_NoClusterSkipped ==
    [][\A obj \in VMObjects :
          (VMStep(obj) /\ NoCluster(obj))
              => /\ SkippedUntouched
                 /\ (ReachesChecks(obj) /\ ~(FirstIteration /\ Offline(obj)))
                        => last'.outcome = "no_cluster" /\ last'.log = "error"
                 /\ (ReachesChecks(obj) /\ FirstIteration /\ Offline(obj))
                        => last'.outcome = "offline_first_run" /\ last'.log = "debug"]_vars

\* an offline VM without cluster was skipped with an error in the second
\* pass, with VMs still to be handled after it
C18_Witness ==
    /\ last.outcome = "no_cluster"
    /\ last.log = "error"
    /\ ~last.first_time
    /\ Offline(last.obj)
    /\ run = "running"
    /\ view_objects # {}

\* the second run has ended, normally or with an error
SecondRunOver == probe.round = 2 /\ run \in {"done", "aborted"}

\* C16: a second run over the same hosts, VMs and interfaces against the
\* inventory left by the first run creates no device, VM, interface or IP
\* address record and leaves every field of every record as it was.
C16_SecondRunIdempotent ==
    /\ probe.round = 2 =>
          /\ \A t \in ObjectTypes : Len(store[t]) = Len(probe.snapshot.store[t])
          /\ \A t \in InterfaceTypes : Len(ifstore[t]) = Len(probe.snapshot.ifstore[t])
          /\ Len(ipstore) = Len(probe.snapshot.ipstore)
    /\ SecondRunOver =>
          /\ run = "done"
          /\ store = probe.snapshot.store
          /\ ifstore = probe.snapshot.ifstore
          /\ ipstore = probe.snapshot.ipstore

\* the second run has ended after writing a host and a VM that the first run
\* had written
C16_Witness ==
    /\ SecondRunOver
    /\ \E n \in HostNames : writes.host_name[n] = 1
    /\ \E u \in UUIDs : writes.uuid[u] = 1
    /\ probe.snapshot.store[NBDevices] # <<>>
    /\ probe.snapshot.store[NBVMs] # <<>>
    /\ probe.snapshot.ifstore[NBVMInterfaces] # <<>>
    /\ probe.snapshot.ipstore # <<>>

\* the record the step resolved obj to, as it was before the step, was
\* written earlier in the same run by another VM (another UUID and name)
BoundToOtherVM(obj) ==
    LET old == store[NBVMs][last'.object]
    IN  /\ ~last'.created
        /\ old.src \in VMObjects \ {obj}
        /\ VirtualMachine(old.src).uuid # VirtualMachine(obj).uuid
        /\ VirtualMachine(old.src).name # VirtualMachine(obj).name
        /\ writes.uuid[VirtualMachine(old.src).uuid] >= 1

\* the same for a host with another name
BoundToOtherHost(obj) ==
    LET old == store[NBDevices][last'.object]
    IN  /\ ~last'.created
        /\ old.src \in HostObjects \ {obj}
        /\ HostSystem(old.src).name # HostSystem(obj).name
        /\ writes.host_name[HostSystem(old.src).name] >= 1

\* C21: a device / VM record created or updated for one discovered entity in
\* a run is never resolved to and updated by another discovered entity of
\* the same run.
C21_NoOverwriteByOther ==
    [][/\ \A obj \in VMObjects : (VMStep(obj) /\ Stored) => ~BoundToOtherVM(obj)
       /\ \A obj \in HostObjects : (HostStep(obj) /\ Stored) => ~BoundToOtherHost(obj)]_vars

\* the interfaces of the searched kind that have a MAC address equal to the
\* MAC address of a discovered interface
RealMacMatches(object_type, mac_list) ==
    LET ints == ifstore[IF object_type = NBDevices THEN NBInterfaces ELSE NBVMInterfaces]
    IN  {i \in MatchingInterfaces(object_type, mac_list) : ints[i].mac_address # None}

\* C22: the MAC resolver counts an existing interface toward its parent only
\* when the interface has a MAC address equal to that of a discovered
\* interface: a parent is returned only if one of its interfaces has such a
\* MAC address, also when the MAC list holds the entry of a NIC without MAC.
C22_NoMatchWithoutMac ==
    (MacsCalled /\ probe.result # 0) =>
        \E i \in RealMacMatches(probe.object_type, probe.mac_list) :
            ifstore[IF probe.object_type = NBDevices THEN NBInterfaces
                    ELSE NBVMInterfaces][i].parent = probe.result

\* the host data add_host builds for obj
HostDataOf(obj) ==
    LET host == HostSystem(obj)
    IN  host_data(obj, host.name, SiteName(handler),
                  IF host.cluster = host.name THEN "Standalone ESXi Host" ELSE host.cluster,
                  IF host.connectionState = "connected" THEN "active" ELSE "offline")

\* data holds value under key
Holds(data, key, value) == key \in DOMAIN data /\ data[key] = value

\* C23: when a host reports a serial number, an accepted asset tag or a
\* platform, the host data used to create or update its device record holds
\* the serial, asset_tag and platform fields.
C23_HostDataHoldsHardware ==
    [][\A obj \in HostObjects :
          (HostStep(obj) /\ Stored) =>
              /\ Serial(Identifiers(obj)) # None
                    => Holds(HostDataOf(obj), "serial", Serial(Identifiers(obj)))
              /\ AssetTag(Identifiers(obj)) # None
                    => Holds(HostDataOf(obj), "asset_tag", AssetTag(Identifiers(obj)))
              /\ Holds(HostDataOf(obj), "platform", Platform(Product(obj)))]_vars

\* the discovered interfaces of obj, in the order of the loop
DiscoveredInterfaces(obj) ==
    IF obj \in HostObjects THEN HostSystem(obj).pnics \o HostSystem(obj).vnics
    ELSE VirtualMachine(obj).nics

\* the interface list of the kind of obj
IfaceKind(obj) == IF obj \in HostObjects THEN NBInterfaces ELSE NBVMInterfaces

\* the interface records of the record bound to obj that carry name n, after
\* the step
RecordsOf(obj, n) ==
    {i \in 1..Len(ifstore'[IfaceKind(obj)]) :
        /\ ifstore'[IfaceKind(obj)][i].parent = last'.object
        /\ ifstore'[IfaceKind(obj)][i].name = n}

\* what the reconciler returned for the record bound to obj
ReturnedFor(obj) ==
    map_object_interfaces_to_current_interfaces(ifstore[IfaceKind(obj)], last'.object,
                                                DiscoveredInterfaces(obj)).return_data

\* the existing interface the reconciler mapped name n to (0: none)
MappedTo(return_data, n) ==
    return_data[CHOOSE k \in 1..Len(return_data) : return_data[k].name = n].nic

\* the record of interface d: one record, written from the data of d, new
\* exactly when the reconciler mapped d to none and the mapped one otherwise
WrittenOnce(obj, d, return_data) ==
    /\ Cardinality(RecordsOf(obj, d.name)) = 1
    /\ \A i \in RecordsOf(obj, d.name) :
          /\ ifstore'[IfaceKind(obj)][i].mac_address = d.mac_address
          /\ d.type # None => ifstore'[IfaceKind(obj)][i].type = d.type
          /\ IF MappedTo(return_data, d.name) = 0
             THEN i > Len(ifstore[IfaceKind(obj)])
             ELSE i = MappedTo(return_data, d.name)

\* C24: after a host or VM has been processed, every discovered interface has
\* exactly one interface record written from its data with the bound record
\* as parent; the record is new exactly when the reconciler mapped the
\* interface name to none, and is the mapped existing interface otherwise.
C24_OneRecordPerInterface ==
    [][\A obj \in HostObjects \cup VMObjects :
          (HandlerStep(obj) /\ last'.outcome = "synced") =>
              LET nics == DiscoveredInterfaces(obj)
              IN  \A k \in 1..Len(nics) : WrittenOnce(obj, nics[k], ReturnedFor(obj))]_vars

\* the first host written by the first handler was resolved to the device
\* read from NetBox: its discovered interface vmk0 was written into the
\* existing interface the reconciler mapped it to, and vmnic0, mapped to
\* none, into a new record
C24_Witness ==
    /\ last.fn = "add_host"
    /\ last.outcome = "synced"
    /\ ~last.created
    /\ handler = 1
    /\ \A n \in HostNames : writes.host_name[n] = (IF n = HostSystem(last.obj).name THEN 1 ELSE 0)
    /\ store[NBDevices][last.object].src = last.obj
    /\ Len(NetBoxInventory.ifstore[NBInterfaces]) = 1
    /\ Len(ifstore[NBInterfaces]) = 2
    /\ ifstore[NBInterfaces][1] = Interface("vmk0", "hm2", "virtual", last.object)
    /\ ifstore[NBInterfaces][2] = Interface("vmnic0", "hm1", "1000base-t", last.object)

====
